---- MODULE Spec2Model ----
(***************************************************************************)
(* Matchmaking and duel-session core of BeatCode                           *)
(* (src/src/backend/multiplayer.ts).                                       *)
(*                                                                         *)
(* The module state of the server is the waiting queue `matchmakingQueue`  *)
(* and the registry `rooms` (a JavaScript Map, kept here as the sequence   *)
(* of its entries in insertion order).  The socket.io server contributes   *)
(* the set of open sockets and the membership of its broadcast channels.   *)
(* Every socket.io event handler runs to completion on the single          *)
(* JavaScript thread, so each handler is one atomic action.                *)
(***************************************************************************)
EXTENDS Integers, Sequences, FiniteSets

\* ---------------------------------------------------------------- bounds
\* number of connections the server accepts during a run
MaxConns == 3
\* largest reading of the millisecond clock
MaxClock == 2
\* resolution of Math.random(): the value r stands for r / RandSteps
RandSteps == 3
\* number of rooms tryMatch creates during a run
MaxPairings == 2

SocketIds == 1..MaxConns
Usernames == {"alice"}

\* `room-${Date.now()}`: the template string, kept as prefix and reading
RoomId(t) == <<"room-", t>>
\* the room ids a client can put in a payload; RoomId(0) is never issued
RoomIdInputs == {RoomId(t) : t \in 0..MaxClock}

VARIABLES
  matchmakingQueue,  \* Player[]: sequence of [socketId, username]
  rooms,             \* Map<string, Room>: sequence of [key, val] entries
  clock,             \* last reading of Date.now()
  conn,              \* socket id -> "new" | "open" | "closed"
  channels,          \* socket.io adapter: room id -> set of joined sockets
  sent,              \* socket id -> messages delivered by the last handler
  last,              \* the event handled last and the branch it took
  gameOverIds,       \* history: room ids for which gameOver was broadcast
  abandonedIds,      \* history: room ids removed by handleDisconnect
  pairings           \* history: number of rooms created so far

vars == <<matchmakingQueue, rooms, clock, conn, channels, sent, last,
          gameOverIds, abandonedIds, pairings>>

\* ------------------------------------------------------------ Map<K, V>
MapHas(m, k) == \E i \in DOMAIN m : m[i].key = k

MapGet(m, k) == m[CHOOSE i \in DOMAIN m : m[i].key = k].val

\* a registry keyed by the room's start time in place of its id
MapSet_KeyFromStartTime(m, k, v) ==
  LET key == RoomId(v.startTime) IN
  IF MapHas(m, key)
    THEN [i \in DOMAIN m |->
            IF m[i].key = key THEN [key |-> key, val |-> v] ELSE m[i]]
    ELSE Append(m, [key |-> key, val |-> v])

\* Map.prototype.set: a present key keeps its position and gets the value
MapSet(m, k, v) ==
  IF MapHas(m, k)
    THEN [i \in DOMAIN m |-> IF m[i].key = k THEN [key |-> k, val |-> v] ELSE m[i]]
    ELSE Append(m, [key |-> k, val |-> v])

MapDelete(m, k) == SelectSeq(m, LAMBDA e : e.key # k)

MapKeys(m) == {m[i].key : i \in DOMAIN m}

\* ------------------------------------------------------------- socket.io
NoOutput == [c \in SocketIds |-> <<>>]

\* io.sockets.sockets: the sockets that are connected
Sockets == {c \in SocketIds : conn[c] = "open"}

\* a pairing that forgets to put the player in the room's channel
SocketJoin_Skipped(ch, socketId, roomId) == ch

\* sockets.get(id)?.join(roomId)
SocketJoin(ch, socketId, roomId) ==
  IF socketId \in Sockets
    THEN [ch EXCEPT ![roomId] = @ \cup {socketId}]
    ELSE ch

\* io.to(roomId).emit(event, payload): one copy to each socket of the channel
Emit(out, ch, roomId, event, payload) ==
  [c \in SocketIds |->
     IF c \in ch[roomId]
       THEN Append(out[c], [event |-> event, channel |-> roomId, payload |-> payload])
       ELSE out[c]]

\* Date.now(): the clock never runs backwards
DateNow == clock..MaxClock

\* ------------------------------------------------------ getRandomProblem
problems == <<"two-sum", "reverse-linked-list", "valid-parentheses">>

\* arr[i] of a JavaScript array (1-based here): an index outside the array
\* reads undefined, written "undefined"
ArrayAt(arr, i) == IF i \in DOMAIN arr THEN arr[i] ELSE "undefined"

\* an index taken one past the floor
getRandomProblem_OffByOne(r) ==
  ArrayAt(problems, ((r * Len(problems)) \div RandSteps) + 2)

\* problems[Math.floor(Math.random() * problems.length)], 1-based here
getRandomProblem(r) == ArrayAt(problems, ((r * Len(problems)) \div RandSteps) + 1)

\* ------------------------------------------------------- removeFromQueue
\* Array.prototype.findIndex, 1-based; 0 stands for -1
findIndex(q, socketId) ==
  IF \E i \in DOMAIN q : q[i].socketId = socketId
    THEN CHOOSE i \in DOMAIN q :
           /\ q[i].socketId = socketId
           /\ \A j \in DOMAIN q : q[j].socketId = socketId => i <= j
    ELSE 0

\* splice(index, 1) without the index !== -1 guard: splice(-1, 1) removes
\* the last entry
removeFromQueue_SpliceMinusOne(q, socketId) ==
  LET index == findIndex(q, socketId) IN
  IF index # 0
    THEN SubSeq(q, 1, index - 1) \o SubSeq(q, index + 1, Len(q))
    ELSE SubSeq(q, 1, Len(q) - 1)

\* a removal that finds the entry and leaves it where it is
removeFromQueue_NoRemove(q, socketId) == q

removeFromQueue(q, socketId) ==
  LET index == findIndex(q, socketId) IN
  IF index # 0
    THEN SubSeq(q, 1, index - 1) \o SubSeq(q, index + 1, Len(q))
    ELSE q

\* -------------------------------------------------------------- tryMatch
\* a pairing that takes the newest entry first (pop() in place of shift())
ShiftPair_NewestFirst(q) == <<q[Len(q)], q[Len(q) - 1], SubSeq(q, 1, Len(q) - 2)>>

\* a pairing whose second shift() is a peek: player2 stays in the queue
ShiftPair_KeepsSecond(q) == <<q[1], q[2], SubSeq(q, 2, Len(q))>>

\* the two shift() calls: <<player1, player2, rest of the queue>>
ShiftPair(q) == <<q[1], q[2], SubSeq(q, 3, Len(q))>>

Players(room) == {room.players[i].socketId : i \in DOMAIN room.players}

\* tryMatch(io) run on the queue q (the queue after the push); ev is the
\* inbound event, recorded in `last` with the branch taken
tryMatch(q, ev) ==
  IF Len(q) < 2
    THEN /\ matchmakingQueue' = q
         /\ last' = [ev EXCEPT !.outcome = "queued"]
         /\ sent' = NoOutput
         /\ UNCHANGED <<rooms, clock, channels, pairings>>
    ELSE /\ pairings < MaxPairings
         /\ \E t1 \in DateNow, r \in 0..(RandSteps - 1) :
            \E t2 \in t1..MaxClock :
           LET pair == ShiftPair(q)
               player1 == pair[1]
               player2 == pair[2]
               roomId == RoomId(t1)
               problemId == getRandomProblem(r)
               room == [id |-> roomId,
                        players |-> <<player1, player2>>,
                        problemId |-> problemId,
                        startTime |-> t2,
                        finished |-> FALSE]
               joined == SocketJoin(SocketJoin(channels, player1.socketId, roomId),
                                    player2.socketId, roomId)
           IN /\ matchmakingQueue' = pair[3]
              /\ rooms' = MapSet(rooms, roomId, room)
              /\ channels' = joined
              /\ sent' = Emit(NoOutput, joined, roomId, "matchFound",
                              [roomId |-> roomId, problemId |-> problemId])
              /\ clock' = t2
              /\ last' = [ev EXCEPT !.outcome = "paired", !.room = roomId]
              /\ pairings' = pairings + 1

\* -------------------------------------------------------------- handlers
\* io.on("connection"): a new socket; ids are handed out in order
Connect(c) ==
  /\ conn[c] = "new"
  /\ \A d \in SocketIds : d < c => conn[d] # "new"
  /\ conn' = [conn EXCEPT ![c] = "open"]
  /\ sent' = NoOutput
  /\ last' = [event |-> "connection", socket |-> c, outcome |-> "none"]
  /\ UNCHANGED <<matchmakingQueue, rooms, clock, channels, gameOverIds,
                 abandonedIds, pairings>>

\* a join handler that pushes and does not call tryMatch
StartMatchmaking_NoTryMatch(c, username) ==
  /\ conn[c] = "open"
  /\ matchmakingQueue' =
       Append(matchmakingQueue, [socketId |-> c, username |-> username])
  /\ sent' = NoOutput
  /\ last' = [event |-> "startMatchmaking", socket |-> c, username |-> username,
              outcome |-> "queued", room |-> RoomId(0)]
  /\ UNCHANGED <<rooms, clock, conn, channels, gameOverIds, abandonedIds,
                 pairings>>

\* a join handler that calls tryMatch and does not push
StartMatchmaking_NoPush(c, username) ==
  /\ conn[c] = "open"
  /\ tryMatch(matchmakingQueue,
              [event |-> "startMatchmaking", socket |-> c, username |-> username,
               outcome |-> "none", room |-> RoomId(0)])
  /\ UNCHANGED <<conn, gameOverIds, abandonedIds>>

\* socket.on("startMatchmaking", username)
StartMatchmaking(c, username) ==
  /\ conn[c] = "open"
  /\ LET player == [socketId |-> c, username |-> username] IN
     tryMatch(Append(matchmakingQueue, player),
              [event |-> "startMatchmaking", socket |-> c, username |-> username,
               outcome |-> "none", room |-> RoomId(0)])
  /\ UNCHANGED <<conn, gameOverIds, abandonedIds>>

\* socket.on("cancelMatchmaking")
CancelMatchmaking(c) ==
  /\ conn[c] = "open"
  /\ matchmakingQueue' = removeFromQueue(matchmakingQueue, c)
  /\ sent' = NoOutput
  /\ last' = [event |-> "cancelMatchmaking", socket |-> c,
              outcome |-> IF findIndex(matchmakingQueue, c) # 0
                            THEN "dequeued" ELSE "none"]
  /\ UNCHANGED <<rooms, clock, conn, channels, gameOverIds, abandonedIds, pairings>>

\* room.finished = true, on the Room object the registry holds
MarkFinished(m, roomId) ==
  MapSet(m, roomId, [MapGet(m, roomId) EXCEPT !.finished = TRUE])

\* a handler that marks the room finished and forgets rooms.delete
FinishRoom_NoDelete(m, roomId) == MarkFinished(m, roomId)

\* a handler whose emit throws when a player of the room has left the
\* channel, so that rooms.delete is never reached
FinishRoom_AbortsOnSendFailure(m, roomId) ==
  IF Players(MapGet(m, roomId)) \subseteq channels[roomId]
    THEN MapDelete(MarkFinished(m, roomId), roomId)
    ELSE MarkFinished(m, roomId)

\* the registry after the applied branch: room.finished = true, the emit,
\* then rooms.delete(roomId)
FinishRoom(m, roomId) == MapDelete(MarkFinished(m, roomId), roomId)

\* a handler that broadcasts before it looks the room up
SubmitCorrectSolution_EmitFirst(c, roomId) ==
  /\ conn[c] = "open"
  /\ \E t \in DateNow :
       /\ sent' = Emit(NoOutput, channels, roomId, "gameOver",
                       [winner |-> c, finishedAt |-> t])
       /\ clock' = t
  /\ IF ~MapHas(rooms, roomId) \/ MapGet(rooms, roomId).finished
       THEN /\ last' = [event |-> "submitCorrectSolution", socket |-> c,
                        roomId |-> roomId, outcome |-> "ignored"]
            /\ UNCHANGED <<rooms, gameOverIds>>
       ELSE /\ rooms' = FinishRoom(rooms, roomId)
            /\ gameOverIds' = gameOverIds \cup {roomId}
            /\ last' = [event |-> "submitCorrectSolution", socket |-> c,
                        roomId |-> roomId, outcome |-> "applied",
                        players |-> MapGet(rooms, roomId).players]
  /\ UNCHANGED <<matchmakingQueue, conn, channels, abandonedIds, pairings>>

\* socket.on("submitCorrectSolution", ({ roomId }) => ...)
SubmitCorrectSolution(c, roomId) ==
  /\ conn[c] = "open"
  /\ IF ~MapHas(rooms, roomId) \/ MapGet(rooms, roomId).finished
       THEN /\ sent' = NoOutput
            /\ last' = [event |-> "submitCorrectSolution", socket |-> c,
                        roomId |-> roomId, outcome |-> "ignored"]
            /\ UNCHANGED <<rooms, clock, gameOverIds>>
       ELSE \E t \in DateNow :
            /\ sent' = Emit(NoOutput, channels, roomId, "gameOver",
                            [winner |-> c, finishedAt |-> t])
            /\ rooms' = FinishRoom(rooms, roomId)
            /\ clock' = t
            /\ gameOverIds' = gameOverIds \cup {roomId}
            /\ last' = [event |-> "submitCorrectSolution", socket |-> c,
                        roomId |-> roomId, outcome |-> "applied",
                        players |-> MapGet(rooms, roomId).players]
  /\ UNCHANGED <<matchmakingQueue, conn, channels, abandonedIds, pairings>>

\* the value a missing argument has in the handler
Undefined == <<"undefined", 0>>

\* submitCorrectSolution delivered without a payload object: destructuring
\* ({ roomId }) of undefined throws a TypeError before the body runs
SubmitWithoutPayload(c) ==
  /\ conn[c] = "open"
  /\ sent' = NoOutput
  /\ last' = [event |-> "submitCorrectSolution", socket |-> c,
              roomId |-> Undefined, outcome |-> "threw"]
  /\ UNCHANGED <<matchmakingQueue, rooms, clock, conn, channels, gameOverIds,
                 abandonedIds, pairings>>

\* a scan that takes the first room whoever its players are
FirstRoomOf_Any(m, socketId) == IF Len(m) > 0 THEN 1 ELSE 0

\* the first entry of rooms.entries() whose players include socketId; 0 if none
FirstRoomOf(m, socketId) ==
  IF \E i \in DOMAIN m : socketId \in Players(m[i].val)
    THEN CHOOSE i \in DOMAIN m :
           /\ socketId \in Players(m[i].val)
           /\ \A j \in DOMAIN m : socketId \in Players(m[j].val) => i <= j
    ELSE 0

\* handleDisconnect(io, socketId), with the channels as they are after the
\* closing socket has left them
handleDisconnect(ch, socketId, ev) ==
  LET i == FirstRoomOf(rooms, socketId) IN
  IF i = 0
    THEN /\ sent' = NoOutput
         /\ last' = [ev EXCEPT !.outcome = "none"]
         /\ UNCHANGED <<rooms, abandonedIds>>
    ELSE LET roomId == rooms[i].key IN
         /\ sent' = Emit(NoOutput, ch, roomId, "opponentDisconnected", <<>>)
         /\ rooms' = MapDelete(rooms, roomId)
         /\ abandonedIds' = abandonedIds \cup {roomId}
         /\ last' = [ev EXCEPT !.outcome = "abandoned", !.room = roomId]

\* socket.on("disconnect"): socket.io has already taken the socket out of
\* every channel and out of io.sockets.sockets when the handler runs
Disconnect(c) ==
  /\ conn[c] = "open"
  /\ conn' = [conn EXCEPT ![c] = "closed"]
  /\ channels' = [k \in DOMAIN channels |-> channels[k] \ {c}]
  /\ matchmakingQueue' = removeFromQueue(matchmakingQueue, c)
  /\ handleDisconnect(channels', c,
                      [event |-> "disconnect", socket |-> c, outcome |-> "none",
                       room |-> RoomId(0)])
  /\ UNCHANGED <<clock, gameOverIds, pairings>>

\* ------------------------------------------------------------ behaviours
Init ==
  /\ matchmakingQueue = <<>>
  /\ rooms = <<>>
  /\ clock = 1
  /\ conn = [c \in SocketIds |-> "new"]
  /\ channels = [k \in RoomIdInputs |-> {}]
  /\ sent = NoOutput
  /\ last = [event |-> "init", socket |-> 0, outcome |-> "none"]
  /\ gameOverIds = {}
  /\ abandonedIds = {}
  /\ pairings = 0

Next ==
  \/ \E c \in SocketIds : Connect(c)
  \/ \E c \in SocketIds, username \in Usernames : StartMatchmaking(c, username)
  \/ \E c \in SocketIds : CancelMatchmaking(c)
  \/ \E c \in SocketIds, roomId \in RoomIdInputs : SubmitCorrectSolution(c, roomId)
  \/ \E c \in SocketIds : SubmitWithoutPayload(c)
  \/ \E c \in SocketIds : Disconnect(c)

Spec == Init /\ [][Next]_vars

\* ------------------------------------------------------------ properties
InQueue(c) == \E i \in DOMAIN matchmakingQueue : matchmakingQueue[i].socketId = c

\* positions in the registry of the rooms that have c as a player
RoomsOf(m, c) == {i \in DOMAIN m : c \in Players(m[i].val)}

\* the messages of one event among those delivered to c by the last handler
Received(out, c, event) == SelectSeq(out[c], LAMBDA msg : msg.event = event)

\* every room id stored so far: still a key, or removed by one of the deletes
Issued == MapKeys(rooms) \cup gameOverIds \cup abandonedIds

\* C1: no connection id is at the same time an entry of the waiting queue
\* and a player of a room held in the registry
C1_QueueSessionExclusion ==
  \A c \in SocketIds : ~(InQueue(c) /\ RoomsOf(rooms, c) # {})

\* C2: once a gameOver has been broadcast for room id R, every later
\* submitCorrectSolution naming R sends no message (so no second gameOver)
\* and changes neither the queue nor the registry
C2_FirstWriterWins ==
  [][(last'.event = "submitCorrectSolution" /\ last'.roomId \in gameOverIds)
       => /\ sent' = NoOutput
          /\ matchmakingQueue' = matchmakingQueue
          /\ rooms' = rooms]_vars

\* C3: every room in the registry has exactly two players, and the two have
\* different connection ids
C3_TwoDistinctPlayers ==
  \A i \in DOMAIN rooms :
    /\ Len(rooms[i].val.players) = 2
    /\ rooms[i].val.players[1].socketId # rooms[i].val.players[2].socketId

\* C4: the id of a room created by tryMatch differs from the id of every room
\* created earlier, whether still in the registry or already removed
C4_SessionIdsUnique ==
  [][last'.outcome = "paired" => last'.room \notin Issued]_vars

\* C5: when tryMatch forms a pair, each of the two paired connections is
\* delivered exactly one matchFound, whose roomId and problemId are those of
\* the room stored in the registry
C5_SingleMatchFound ==
  last.outcome = "paired" =>
    /\ MapHas(rooms, last.room)
    /\ LET room == MapGet(rooms, last.room) IN
       /\ room.id = last.room
       /\ \A i \in DOMAIN room.players :
            LET got == Received(sent, room.players[i].socketId, "matchFound") IN
            /\ Len(got) = 1
            /\ got[1].payload = [roomId |-> room.id, problemId |-> room.problemId]

\* a pair of two different connections has just been formed and told so
C5_Witness ==
  /\ last.outcome = "paired"
  /\ MapHas(rooms, last.room)
  /\ LET room == MapGet(rooms, last.room) IN
     /\ room.players[1].socketId # room.players[2].socketId
     /\ room.problemId = "reverse-linked-list"
     /\ \A i \in DOMAIN room.players :
          Len(Received(sent, room.players[i].socketId, "matchFound")) = 1

\* C6: when a player of a room in the registry disconnects, that room leaves
\* the registry, each other player of it receives exactly one
\* opponentDisconnected and the disconnecting connection receives nothing;
\* and a later submitCorrectSolution naming a room id removed that way sends
\* no message and changes neither the queue nor the registry
C6_DisconnectCleanup ==
  [][/\ last'.event = "disconnect" =>
          \A i \in RoomsOf(rooms, last'.socket) :
            /\ rooms[i].key \notin MapKeys(rooms')
            /\ sent'[last'.socket] = <<>>
            /\ \A p \in Players(rooms[i].val) \ {last'.socket} :
                 Len(Received(sent', p, "opponentDisconnected")) = 1
     /\ (last'.event = "submitCorrectSolution" /\ last'.roomId \in abandonedIds)
          => /\ sent' = NoOutput
             /\ matchmakingQueue' = matchmakingQueue
             /\ rooms' = rooms]_vars

\* C7: a join that does not pair appends the entry at the tail; when a room
\* is created its players are the two entries at the head of the queue,
\* player 1 the older, and the other entries stay queued in their order
C7_FifoPairing ==
  [][last'.event = "startMatchmaking" =>
       LET q == Append(matchmakingQueue,
                       [socketId |-> last'.socket, username |-> last'.username])
       IN IF last'.outcome = "paired"
            THEN /\ MapHas(rooms', last'.room)
                 /\ MapGet(rooms', last'.room).players = <<q[1], q[2]>>
                 /\ matchmakingQueue' = SubSeq(q, 3, Len(q))
            ELSE matchmakingQueue' = q]_vars

\* sockets 1, 2, 3 joined in that order: 1 and 2 are paired, 3 is queued
C7_Witness ==
  /\ pairings = 1
  /\ last.event = "startMatchmaking"
  /\ last.socket = 3
  /\ Len(rooms) = 1
  /\ rooms[1].val.players[1].socketId = 1
  /\ rooms[1].val.players[2].socketId = 2
  /\ Len(matchmakingQueue) = 1
  /\ matchmakingQueue[1].socketId = 3

\* C8: at most one terminal transition is applied per room id: a gameOver or
\* opponentDisconnected broadcast is never emitted for a room id that was
\* already finished or abandoned, and a submitCorrectSolution naming such an
\* id has no effect
C8_OneTerminalTransition ==
  [][/\ last'.outcome = "applied" => last'.roomId \notin gameOverIds \cup abandonedIds
     /\ last'.outcome = "abandoned" => last'.room \notin gameOverIds \cup abandonedIds
     /\ (last'.event = "submitCorrectSolution"
           /\ last'.roomId \in gameOverIds \cup abandonedIds)
          => /\ sent' = NoOutput
             /\ matchmakingQueue' = matchmakingQueue
             /\ rooms' = rooms]_vars

\* C9: no connection id is a player of two different rooms of the registry
C9_AtMostOneRoom ==
  \A c \in SocketIds : Cardinality(RoomsOf(rooms, c)) <= 1

\* C10: a startMatchmaking from a connection whose id is already in the
\* waiting queue leaves the queue unchanged, creates no room and sends no
\* message
C10_DuplicateJoinIdempotent ==
  [][(last'.event = "startMatchmaking" /\ InQueue(last'.socket))
       => /\ matchmakingQueue' = matchmakingQueue
          /\ rooms' = rooms
          /\ sent' = NoOutput]_vars

\* C11: when a submitCorrectSolution for room R is applied, every player of
\* R is delivered a gameOver whose winner is the submitting connection, and
\* R leaves the registry in the same step
C11_GameOverToBothPlayers ==
  [][last'.outcome = "applied" =>
       /\ ~MapHas(rooms', last'.roomId)
       /\ \A p \in Players(MapGet(rooms, last'.roomId)) :
            LET got == Received(sent', p, "gameOver") IN
            /\ Len(got) = 1
            /\ got[1].payload.winner = last'.socket]_vars

\* C12: between two handled events no room of the registry has
\* finished = true, and a room that was just finished or abandoned is not
\* found by a registry lookup
C12_NoTerminalRoomRetained ==
  /\ \A i \in DOMAIN rooms : rooms[i].val.finished = FALSE
  /\ last.outcome = "applied" => ~MapHas(rooms, last.roomId)
  /\ last.outcome = "abandoned" => ~MapHas(rooms, last.room)

\* a submission has just finished a room while another room stays registered
C12_Witness ==
  /\ last.outcome = "applied"
  /\ Len(rooms) = 1
  /\ abandonedIds = {}

C14_CancelIdempotent ==
  [][last'.event = "cancelMatchmaking" =>
       /\ findIndex(matchmakingQueue', last'.socket) = 0
       /\ ~InQueue(last'.socket) =>
            /\ matchmakingQueue' = matchmakingQueue
            /\ rooms' = rooms
            /\ sent' = NoOutput]_vars

\* a player of a registered room has cancelled while someone else is queued
C14_Witness ==
  /\ last.event = "cancelMatchmaking"
  /\ last.outcome = "none"
  /\ RoomsOf(rooms, last.socket) # {}
  /\ Len(matchmakingQueue) = 1
  /\ matchmakingQueue[1].socketId # last.socket

\* C15: the disconnect of a connection that is neither queued nor a player
\* of a registered room leaves the queue and the registry unchanged and
\* sends no message
C15_IdleDisconnectIsNoOp ==
  [][(last'.event = "disconnect" /\ ~InQueue(last'.socket)
        /\ RoomsOf(rooms, last'.socket) = {})
       => /\ matchmakingQueue' = matchmakingQueue
          /\ rooms' = rooms
          /\ sent' = NoOutput]_vars

\* an idle connection has closed while a room is registered and another
\* connection is queued
C15_Witness ==
  /\ last.event = "disconnect"
  /\ last.outcome = "none"
  /\ Len(rooms) > 0
  /\ Len(matchmakingQueue) = 1

\* C16: no handler run on a malformed inbound event ends in an error
C16_MalformedEventDropped == last.outcome # "threw"

\* C17: a broadcast that cannot reach a player does not abort the handler:
\* an applied submission removes exactly its room and leaves the queue, an
\* abandon removes exactly its room and only the closing socket's queue
\* entry, a pairing leaves its room registered under its id and every other
\* room as it was
C17_SendFailureDoesNotAbort ==
  [][/\ last'.outcome = "applied" =>
          /\ rooms' = MapDelete(rooms, last'.roomId)
          /\ matchmakingQueue' = matchmakingQueue
     /\ last'.outcome = "abandoned" =>
          /\ rooms' = MapDelete(rooms, last'.room)
          /\ matchmakingQueue' = removeFromQueue(matchmakingQueue, last'.socket)
     /\ last'.outcome = "paired" =>
          /\ MapHas(rooms', last'.room)
          /\ MapGet(rooms', last'.room).id = last'.room
          /\ \A k \in MapKeys(rooms) \ {last'.room} :
               MapHas(rooms', k) /\ MapGet(rooms', k) = MapGet(rooms, k)]_vars

\* a submission has just ended a room one of whose players had already
\* closed its connection, so that the gameOver could not reach that player
C17_Witness ==
  /\ last.outcome = "applied"
  /\ ~MapHas(rooms, last.roomId)
  /\ \E i \in DOMAIN last.players :
       /\ conn[last.players[i].socketId] = "closed"
       /\ sent[last.players[i].socketId] = <<>>
  /\ \E c \in SocketIds : Len(Received(sent, c, "gameOver")) = 1

\* C18: when a connection has cancelled while queued, the next join by
\* another connection creates no room, sends no matchFound and leaves the
\* joiner as the only entry of the queue
C18_CancelBeforePairing ==
  [][(last.event = "cancelMatchmaking" /\ last.outcome = "dequeued"
        /\ last'.event = "startMatchmaking" /\ last'.socket # last.socket)
       => /\ last'.outcome = "queued"
          /\ rooms' = rooms
          /\ sent' = NoOutput
          /\ matchmakingQueue' =
               <<[socketId |-> last'.socket, username |-> last'.username]>>]_vars

\* a queued connection has cancelled and another connection is open to join
C18_Witness ==
  /\ last.event = "cancelMatchmaking"
  /\ last.outcome = "dequeued"
  /\ matchmakingQueue = <<>>
  /\ \E d \in SocketIds : d # last.socket /\ conn[d] = "open"

\* C19: removeFromQueue(id) on a queue that contains id leaves exactly the
\* entries of other ids, in their order; run from cancelMatchmaking it
\* changes no room and sends no message
C19_RemoveFromQueueFrame ==
  [][(last'.event \in {"cancelMatchmaking", "disconnect"}
        /\ InQueue(last'.socket))
       => LET id == last'.socket IN
          /\ matchmakingQueue' =
               SelectSeq(matchmakingQueue, LAMBDA p : p.socketId # id)
          /\ last'.event = "cancelMatchmaking" =>
               (rooms' = rooms /\ sent' = NoOutput)]_vars

\* a queued connection has cancelled while a room is registered
C19_Witness ==
  /\ last.event = "cancelMatchmaking"
  /\ last.outcome = "dequeued"
  /\ Len(rooms) > 0
  /\ findIndex(matchmakingQueue, last.socket) = 0

\* C20: the winner of every gameOver is a player of the room that was
\* finished
C20_WinnerIsPlayer ==
  last.outcome = "applied" =>
    \E i \in DOMAIN last.players : last.players[i].socketId = last.socket

\* C21: a room of the registry stays there, with the same players, problemId
\* and start time, in every step that is neither an applied
\* submitCorrectSolution naming its id nor the disconnect of one of its
\* players; in particular a pairing leaves every existing room as it was
C21_RoomKeptUntilTerminal ==
  [][\A k \in MapKeys(rooms) :
       \/ MapHas(rooms', k) /\ MapGet(rooms', k) = MapGet(rooms, k)
       \/ last'.outcome = "applied" /\ last'.roomId = k
       \/ last'.event = "disconnect"
            /\ last'.socket \in Players(MapGet(rooms, k))]_vars

\* C22: every queued entry and every player of a registered room belongs
\* to a connection that is still open
C22_PlayersConnected ==
  /\ \A i \in DOMAIN matchmakingQueue :
       conn[matchmakingQueue[i].socketId] = "open"
  /\ \A i \in DOMAIN rooms :
       \A p \in Players(rooms[i].val) : conn[p] = "open"

\* C23: every message a handler delivers goes to a player of the room it is
\* about: matchFound to the players of the room just stored, gameOver and
\* opponentDisconnected to the players of the room just removed
C23_MessageIsolation ==
  [][\A c \in SocketIds :
       \A i \in DOMAIN sent'[c] :
         IF sent'[c][i].event = "matchFound"
           THEN c \in Players(MapGet(rooms', sent'[c][i].channel))
           ELSE c \in Players(MapGet(rooms, sent'[c][i].channel))]_vars

\* C24: after every handled event the queue holds at most one entry, and a
\* startMatchmaking handled while one entry waits pairs it and leaves the
\* queue empty
C24_QueueAtMostOne ==
  [][/\ Len(matchmakingQueue') <= 1
     /\ (last'.event = "startMatchmaking" /\ Len(matchmakingQueue) = 1)
          => (last'.outcome = "paired" /\ matchmakingQueue' = <<>>)]_vars

C24_Witness ==
  /\ last.outcome = "paired"
  /\ last.socket = 3
  /\ matchmakingQueue = <<>>
  /\ pairings = 2

\* C25: a key of the registry is new, or holds another room than before,
\* only after a startMatchmaking step that paired: the room is the one that
\* step stored, its players are the first two entries of the queue after
\* the push, in order, and exactly these two entries left the queue
C25_RoomsOnlyByPairing ==
  [][\A k \in MapKeys(rooms') :
       (~MapHas(rooms, k) \/ MapGet(rooms', k) # MapGet(rooms, k)) =>
         /\ last'.event = "startMatchmaking"
         /\ last'.outcome = "paired"
         /\ last'.room = k
         /\ LET q == Append(matchmakingQueue,
                            [socketId |-> last'.socket,
                             username |-> last'.username])
            IN /\ MapGet(rooms', k).players = <<q[1], q[2]>>
               /\ matchmakingQueue' = SubSeq(q, 3, Len(q))
               /\ Len(matchmakingQueue') = Len(q) - 2]_vars

C25_Witness ==
  /\ last.outcome = "paired"
  /\ Len(rooms) = 2
  /\ matchmakingQueue = <<>>
  /\ MapHas(rooms, last.room)
  /\ LET room == MapGet(rooms, last.room) IN
     /\ room.players[2].socketId = last.socket
     /\ room.players[1].socketId # last.socket

\* the entries of q that belong to other sockets than socketId, in order
WithoutSocket(q, socketId) == SelectSeq(q, LAMBDA e : e.socketId # socketId)

\* C26: a cancelMatchmaking or disconnect leaves the entries of every other
\* connection in the queue, in their order; a submitCorrectSolution or a
\* new connection leaves the queue as it is; a startMatchmaking that does
\* not pair keeps every entry in place
C26_OthersStayQueued ==
  [][LET socketId == last'.socket IN
     /\ last'.event \in {"cancelMatchmaking", "disconnect"} =>
          WithoutSocket(matchmakingQueue', socketId)
            = WithoutSocket(matchmakingQueue, socketId)
     /\ last'.event \in {"submitCorrectSolution", "connection"} =>
          matchmakingQueue' = matchmakingQueue
     /\ (last'.event = "startMatchmaking" /\ last'.outcome # "paired") =>
          /\ Len(matchmakingQueue') >= Len(matchmakingQueue)
          /\ SubSeq(matchmakingQueue', 1, Len(matchmakingQueue))
               = matchmakingQueue]_vars

C26_Witness ==
  /\ last.event = "disconnect"
  /\ last.outcome = "abandoned"
  /\ Len(matchmakingQueue) = 1
  /\ matchmakingQueue[1].socketId # last.socket
  /\ conn[matchmakingQueue[1].socketId] = "open"

\* C27: a startMatchmaking whose push leaves fewer than two entries in the
\* queue changes no room and no channel, sends no message, and leaves the
\* queue as it was with the new entry at its end
C27_NoPairBelowTwo ==
  [][(last'.event = "startMatchmaking" /\ Len(matchmakingQueue) + 1 < 2) =>
       /\ last'.outcome = "queued"
       /\ rooms' = rooms
       /\ channels' = channels
       /\ sent' = NoOutput
       /\ matchmakingQueue' =
            Append(matchmakingQueue, [socketId |-> last'.socket,
                                      username |-> last'.username])]_vars

C27_Witness ==
  /\ last.event = "startMatchmaking"
  /\ last.outcome = "queued"
  /\ Len(rooms) > 0
  /\ matchmakingQueue =
       <<[socketId |-> last.socket, username |-> last.username]>>

\* the identifiers of the catalog
Catalog == {problems[i] : i \in DOMAIN problems}

\* C28: getRandomProblem returns a catalog identifier for every random
\* value, and the problemId of every registered room and of every
\* matchFound message is a catalog identifier
C28_ProblemFromCatalog ==
  /\ \A r \in 0..(RandSteps - 1) : getRandomProblem(r) \in Catalog
  /\ \A i \in DOMAIN rooms : rooms[i].val.problemId \in Catalog
  /\ \A c \in SocketIds :
       \A i \in DOMAIN sent[c] :
         sent[c][i].event = "matchFound" =>
           sent[c][i].payload.problemId \in Catalog

C28_Witness ==
  /\ last.outcome = "paired"
  /\ MapHas(rooms, last.room)
  /\ MapGet(rooms, last.room).problemId = "valid-parentheses"
  /\ \E c \in SocketIds :
       \E i \in DOMAIN sent[c] :
         /\ sent[c][i].event = "matchFound"
         /\ sent[c][i].payload.problemId = "valid-parentheses"

\* C29: every registry entry holds a room whose id is its key; the room
\* under a key is the same from step to step unless a pairing stores a new,
\* unfinished room under that key; and room.finished = true writes nothing
\* but the finished field of the room named, from false to true
C29_RegistryConsistent ==
  [][/\ \A i \in DOMAIN rooms' : rooms'[i].val.id = rooms'[i].key
     /\ \A k \in MapKeys(rooms) \cap MapKeys(rooms') :
          \/ MapGet(rooms', k) = MapGet(rooms, k)
          \/ /\ last'.event = "startMatchmaking"
             /\ last'.outcome = "paired"
             /\ last'.room = k
             /\ MapGet(rooms', k).finished = FALSE
     /\ \A k \in MapKeys(rooms) :
          /\ MapGet(rooms, k).finished = FALSE
          /\ MapKeys(MarkFinished(rooms, k)) = MapKeys(rooms)
          /\ \A j \in MapKeys(rooms) :
               MapGet(MarkFinished(rooms, k), j) =
                 IF j = k THEN [MapGet(rooms, k) EXCEPT !.finished = TRUE]
                          ELSE MapGet(rooms, j)]_vars

C29_Witness ==
  /\ last.outcome = "applied"
  /\ Len(rooms) = 1
  /\ rooms[1].key # last.roomId
  /\ rooms[1].key # RoomId(rooms[1].val.startTime)

====
